---- MODULE Spec2Model ----
(***************************************************************************)
(* thor-agent: a host-metrics reporting agent.  Three variants of the same *)
(* program exist in the repository:                                        *)
(*   "cmd_main" : src/cmd/main.go      (tenant id in the payload)          *)
(*   "part_000" : src/unnamed/part_000 (tenant id, container id, top-5     *)
(*                process list: the richest variant)                       *)
(*   "part_001" : src/unnamed/part_001 (key only: the minimal variant)     *)
(* The model follows main() statement by statement, with one action per    *)
(* blocking step (environment load, Dial, the handshake checks,            *)
(* collectMetrics, WriteMessage, Sleep).  The external collaborators       *)
(* (godotenv, gorilla/websocket, gopsutil, the wall clock) are inputs      *)
(* drawn from small sets.  hist is the trace of the calls the program      *)
(* makes on its collaborators and of the lines it prints or logs.          *)
(***************************************************************************)
EXTENDS Integers, Sequences, FiniteSets, TLC

VARIABLES
    variant,      \* which of the three programs runs
    pc,           \* position of main()
    key,          \* os.Getenv("SERVER_API_KEY")
    cid,          \* os.Getenv("CONTAINERID") (part_000 only)
    conn,         \* *websocket.Conn returned by Dial: 0 is nil, else its identity
    response,     \* *http.Response returned by Dial
    err,          \* the err variable of main(): "" is nil
    tenantId,     \* tenantId / tid read from the handshake response
    deferred,     \* TRUE once `defer conn.Close()` has been executed
    connOpen,     \* the connection is open and has not been closed
    metrics,      \* the []byte returned by the last collectMetrics call
    now,          \* wall clock, seconds
    iter,         \* number of collectMetrics calls made so far
    hist,         \* trace of external calls, prints and log lines
    processes,    \* input of the last getCPUProcess call (the process scan)
    processList   \* outcome of the last getCPUProcess call

vars == <<variant, pc, key, cid, conn, response, err, tenantId, deferred,
          connOpen, metrics, now, iter, hist, processes, processList>>

----------------------------------------------------------------------------
(* Bounds of the model *)

MaxIter == 3
MaxProcs == 6

(* Program constants *)

SleepInterval == 5
CpuWindow == 1
TopN == 5

Variants == {"cmd_main", "part_000", "part_001"}
TenantVariants == {"cmd_main", "part_000"}
ProcessVariants == {"part_000"}

----------------------------------------------------------------------------
(* getCPUProcess (part_000) *)

\* math.Round(cpuPercent*100) / 100 ; x in thousandths of a percent, result
\* in hundredths.  Inputs are kept off the exact halves.
Round2(x) == (x + 5) \div 10

\* math.Round(cpuPercent[0]*10) / 10 ; x in hundredths, result in tenths.
Round1(x) == (x + 5) \div 10

ZeroProcessInfo == [Pid |-> 0, Name |-> "", CPUPercent |-> 0]

NilSlice == [arr |-> <<>>, len |-> 0]

\* runtime.growslice for 32-byte elements appended one at a time: the
\* capacity doubles (1, 2, 4, 8: all are allocator size classes).
growslice(oldCap) == IF oldCap = 0 THEN 1 ELSE 2 * oldCap

\* append(processList, e): a Go slice is a backing array (arr, of length
\* cap) and a length.
append(s, e) ==
    IF s.len < Len(s.arr)
    THEN [arr |-> [s.arr EXCEPT ![s.len + 1] = e], len |-> s.len + 1]
    ELSE [arr |-> [i \in 1..growslice(Len(s.arr)) |->
                      IF i <= s.len THEN s.arr[i]
                      ELSE IF i = s.len + 1 THEN e ELSE ZeroProcessInfo],
          len |-> s.len + 1]

\* the range loop over processes: a process whose CPUPercent() fails is
\* skipped, the others are appended with the percent rounded to 2 places.
RECURSIVE scanLoop(_, _, _)
scanLoop(procs, i, s) ==
    IF i > Len(procs) THEN s
    ELSE IF procs[i].cpuErr THEN scanLoop(procs, i + 1, s)
    ELSE scanLoop(procs, i + 1,
                  append(s, [Pid |-> procs[i].pid, Name |-> procs[i].name,
                             CPUPercent |-> Round2(procs[i].cpu)]))

\* the less function given to sort.Slice
less(a, b) == a.CPUPercent > b.CPUPercent

swap(arr, i, j) == [arr EXCEPT ![i] = arr[j], ![j] = arr[i]]

\* sort.Slice on fewer than 12 elements is an insertion sort.
RECURSIVE insertInner(_, _)
insertInner(arr, j) ==
    IF j > 1 /\ less(arr[j], arr[j - 1])
    THEN insertInner(swap(arr, j, j - 1), j - 1)
    ELSE arr

RECURSIVE insertionSort(_, _, _)
insertionSort(arr, i, n) ==
    IF i > n THEN arr ELSE insertionSort(insertInner(arr, i), i + 1, n)

sortSlice(s) == [arr |-> insertionSort(s.arr, 2, s.len), len |-> s.len]

\* processList[:5] : the bound is checked against the capacity; elements
\* between len and cap are zero values.
sliceTop(s) ==
    IF TopN > Len(s.arr)
    THEN [panic |-> TRUE, list |-> <<>>, logged |-> FALSE]
    ELSE [panic |-> FALSE, list |-> SubSeq(s.arr, 1, TopN), logged |-> FALSE]

\* scan = [err: process.Processes() failed, procs: the processes]
getCPUProcess(scan) ==
    IF scan.err
    THEN [panic |-> FALSE, list |-> <<>>, logged |-> TRUE]
    ELSE sliceTop(sortSlice(scanLoop(scan.procs, 1, NilSlice)))

NoResult == [panic |-> FALSE, list |-> <<>>, logged |-> FALSE]
NoScan == [err |-> FALSE, procs |-> <<>>]

----------------------------------------------------------------------------
(* collectMetrics *)

\* json.Marshal(metrics): the struct's fields in declaration order under
\* their JSON names.
Marshal(v, m) ==
    IF v = "cmd_main" THEN
        << <<"tenantId", m.TID>>, <<"key", m.Key>>, <<"timestamp", m.Timestamp>>,
           <<"cpuUsagePercent", m.CPUUsage>>,
           <<"memoryUsedMb", m.MemoryUsed>>, <<"memoryTotalMb", m.MemoryTotal>>,
           <<"diskUsedGb", m.DiskUsed>>, <<"diskTotalGb", m.DiskTotal>> >>
    ELSE IF v = "part_000" THEN
        << <<"tid", m.TID>>, <<"cid", m.CID>>, <<"key", m.Key>>,
           <<"timestamp", m.Timestamp>>, <<"cpuUsagePercent", m.CPUUsage>>,
           <<"memoryUsedMb", m.MemoryUsed>>, <<"memoryTotalMb", m.MemoryTotal>>,
           <<"diskUsedGb", m.DiskUsed>>, <<"diskTotalGb", m.DiskTotal>>,
           <<"processList", m.Processes>> >>
    ELSE
        << <<"key", m.Key>>, <<"timestamp", m.Timestamp>>,
           <<"cpu_usage_percent", m.CPUUsage>>,
           <<"memory_used_mb", m.MemoryUsed>>, <<"memory_total_mb", m.MemoryTotal>>,
           <<"disk_used_gb", m.DiskUsed>>, <<"disk_total_gb", m.DiskTotal>> >>

\* the Metrics literal built by collectMetrics; t is time.Now()
Metrics(v, tid, c, k, r, t, procs) ==
    [TID |-> IF v \in TenantVariants THEN tid ELSE "",
     CID |-> IF v \in ProcessVariants THEN c ELSE "",
     Key |-> k,
     Timestamp |-> <<"RFC3339", t>>,
     CPUUsage |-> Round1(r.cpu),
     MemoryUsed |-> (r.memUsed \div 1024) \div 1024,
     MemoryTotal |-> (r.memTotal \div 1024) \div 1024,
     DiskUsed |-> ((r.diskUsed \div 1024) \div 1024) \div 1024,
     DiskTotal |-> ((r.diskTotal \div 1024) \div 1024) \div 1024,
     Processes |-> procs]

Failed(e, dt) ==
    [panic |-> FALSE, err |-> e, data |-> <<>>, elapsed |-> dt, proc |-> NoResult]

\* collectMetrics(tid, cid, key) against the readings r of the Metrics
\* Source, called at time t.  r.fail names the call that fails:
\*   "cpu_early" cpu.Percent fails before its 1 s observation window,
\*   "cpu_late"  cpu.Percent fails after it, "mem", "disk",
\*   "none"      every reading succeeds.
\* json.Marshal fails exactly when the float CPUUsage is not finite.
collectMetrics(v, tid, c, k, r, t) ==
    IF r.fail = "cpu_early" THEN Failed("cpu.Percent", 0)
    ELSE IF r.fail = "cpu_late" THEN Failed("cpu.Percent", CpuWindow)
    ELSE IF r.fail = "mem" THEN Failed("mem.VirtualMemory", CpuWindow)
    ELSE IF r.fail = "disk" THEN Failed("disk.Usage", CpuWindow)
    ELSE LET p == IF v \in ProcessVariants THEN getCPUProcess(r.scan) ELSE NoResult
         IN  IF p.panic
             THEN [panic |-> TRUE, err |-> "", data |-> <<>>,
                   elapsed |-> CpuWindow, proc |-> p]
             ELSE IF r.cpuNaN
             THEN [panic |-> FALSE, err |-> "json: unsupported value", data |-> <<>>,
                   elapsed |-> CpuWindow, proc |-> p]
             ELSE [panic |-> FALSE, err |-> "",
                   data |-> Marshal(v, Metrics(v, tid, c, k, r, t + CpuWindow, p.list)),
                   elapsed |-> CpuWindow, proc |-> p]

----------------------------------------------------------------------------
(* Inputs *)

Reading(f, nan, scan) ==
    [fail |-> f, cpu |-> 4237, cpuNaN |-> nan,
     memUsed |-> 3 * 1024 * 1024 + 77, memTotal |-> 8 * 1024 * 1024,
     diskUsed |-> 1024 * 1024 * 1024 + 5, diskTotal |-> 2000000000,
     scan |-> scan]

RawCpu == {4, 6, 14}

Proc(i, c) == [pid |-> i, name |-> "p", cpu |-> IF c < 0 THEN 0 ELSE c, cpuErr |-> c < 0]

\* every scan of at most MaxProcs processes with distinct pids, each with a
\* raw percent of RawCpu or an unreadable percent (-1)
ProcScans ==
    UNION { { [err |-> FALSE, procs |-> [i \in 1..n |-> Proc(i, f[i])]] :
                f \in [1..n -> RawCpu \cup {-1}] } : n \in 0..MaxProcs }
    \cup { [err |-> TRUE, procs |-> <<>>] }

\* the scans the Reporter Loop is run against: n readable processes for
\* every n, and a failed process.Processes()
LoopScans ==
    { [err |-> FALSE, procs |-> [i \in 1..n |-> Proc(i, IF i % 2 = 0 THEN 14 ELSE 4)]] :
        n \in 0..MaxProcs }
    \cup { [err |-> TRUE, procs |-> <<>>] }

MetricsSource(v) ==
    { Reading(f, FALSE, NoScan) : f \in {"cpu_early", "cpu_late", "mem", "disk"} }
    \cup { Reading("none", nan, s) :
             nan \in BOOLEAN,
             s \in IF v \in ProcessVariants THEN LoopScans ELSE {NoScan} }

----------------------------------------------------------------------------
(* Trace events *)

Ev(e, i, t, ok, c, data, msg) ==
    [ev |-> e, it |-> i, t |-> t, ok |-> ok, conn |-> c, data |-> data, msg |-> msg]

Idx(e) == {i \in DOMAIN hist : hist[i].ev = e}

NumDials == Cardinality(Idx("Dial"))

NilResponse == [nil |-> TRUE, tenant |-> ""]

\* fmt.Println(...) ; return
PrintAndReturn(msg) ==
    /\ hist' = Append(hist, Ev("print", iter, now, TRUE, conn, <<>>, msg))
    /\ pc' = "exited"

\* a run-time panic unwinds main(): the deferred conn.Close() runs if it
\* was registered, then the process dies.
PanicEvents(i, t, msg) ==
    <<Ev("panic", i, t, FALSE, conn, <<>>, msg)>>
    \o (IF deferred THEN <<Ev("Close", i, t, TRUE, conn, <<>>, "")>> ELSE <<>>)

----------------------------------------------------------------------------
(* main() *)

Init ==
    /\ variant \in Variants
    /\ pc = "load_env"
    /\ key = ""
    /\ cid = ""
    /\ conn = 0
    /\ response = NilResponse
    /\ err = ""
    /\ tenantId = ""
    /\ deferred = FALSE
    /\ connOpen = FALSE
    /\ metrics = <<>>
    /\ now = 0
    /\ iter = 0
    /\ hist = <<>>
    /\ processes = NoScan
    /\ processList = NoResult

\* godotenv.Load, os.Getenv and the checks of the configuration
LoadEnv ==
    /\ pc = "load_env"
    /\ \E ok \in BOOLEAN, k \in {"", "abc123"}, c \in {"", "c1"} :
        /\ (~ok => k = "" /\ c = "")
        /\ (variant \notin ProcessVariants => c = "")
        /\ err' = IF ok THEN "" ELSE "godotenv"
        /\ key' = k
        /\ cid' = c
        /\ IF ~ok THEN PrintAndReturn("env_load_failed")
           ELSE IF k = "" THEN PrintAndReturn("key_missing")
           ELSE IF variant \in ProcessVariants /\ c = "" THEN PrintAndReturn("cid_missing")
           ELSE pc' = "dial" /\ hist' = hist
    /\ UNCHANGED <<variant, conn, response, tenantId, deferred, connOpen,
                   metrics, now, iter, processes, processList>>

\* conn, response, err := websocket.DefaultDialer.Dial(url, header)
\*   "ok"            (conn, response, nil)
\*   "bad_handshake" (nil, response, ErrBadHandshake)
\*   "net_error"     (nil, nil, err)
\* h is the X-TENANT-ID header of the response ("" when absent).
Dial ==
    /\ pc = "dial"
    /\ \E out \in {"ok", "bad_handshake", "net_error"}, h \in {"", "t1"} :
        /\ (out = "net_error" => h = "")
        /\ conn' = IF out = "ok" THEN NumDials + 1 ELSE 0
        /\ connOpen' = (out = "ok")
        /\ response' = IF out = "net_error" THEN NilResponse
                       ELSE [nil |-> FALSE, tenant |-> h]
        /\ err' = IF out = "ok" THEN "" ELSE out
        /\ hist' = Append(hist, Ev("Dial", iter, now, out = "ok", conn', <<>>, out))
    /\ pc' = IF variant \in TenantVariants THEN "read_tenant" ELSE "check_err"
    /\ UNCHANGED <<variant, key, cid, tenantId, deferred, metrics, now, iter,
                   processes, processList>>

\* ReadTenant without the `if tenantId == ""` exit
ReadTenant_NoCheck ==
    /\ pc = "read_tenant"
    /\ IF response.nil
       THEN /\ hist' = hist \o PanicEvents(iter, now, "nil pointer dereference")
            /\ pc' = "panicked"
            /\ tenantId' = tenantId
       ELSE /\ tenantId' = response.tenant
            /\ pc' = "check_err"
            /\ hist' = hist
    /\ UNCHANGED <<variant, key, cid, conn, response, err, deferred, connOpen,
                   metrics, now, iter, processes, processList>>

\* tenantId := response.Header.Get("X-TENANT-ID") ; if tenantId == "" {...}
ReadTenant ==
    /\ pc = "read_tenant"
    /\ IF response.nil
       THEN /\ hist' = hist \o PanicEvents(iter, now, "nil pointer dereference")
            /\ pc' = "panicked"
            /\ tenantId' = tenantId
       ELSE /\ tenantId' = response.tenant
            /\ IF response.tenant = "" THEN PrintAndReturn("tenant_missing")
               ELSE pc' = "check_err" /\ hist' = hist
    /\ UNCHANGED <<variant, key, cid, conn, response, err, deferred, connOpen,
                   metrics, now, iter, processes, processList>>

\* if err != nil {...} ; defer conn.Close()
CheckDialErr ==
    /\ pc = "check_err"
    /\ IF err # ""
       THEN PrintAndReturn("dial_failed") /\ deferred' = deferred
       ELSE pc' = "collect" /\ deferred' = TRUE /\ hist' = hist
    /\ UNCHANGED <<variant, key, cid, conn, response, err, tenantId, connOpen,
                   metrics, now, iter, processes, processList>>

\* Collect without the `continue` of the error branch: the empty slice
\* returned with the error goes on to WriteMessage
Collect_SendsOnError ==
    /\ pc = "collect"
    /\ iter < MaxIter
    /\ \E r \in MetricsSource(variant) :
        LET res  == collectMetrics(variant, tenantId, cid, key, r, now)
            t2   == now + res.elapsed
            call == Ev("collectMetrics", iter + 1, now,
                       ~res.panic /\ res.err = "", conn, res.data, res.err)
        IN  /\ iter' = iter + 1
            /\ now' = t2
            /\ processes' = r.scan
            /\ processList' = res.proc
            /\ IF res.panic
               THEN /\ hist' = hist \o <<call>>
                               \o PanicEvents(iter + 1, t2, "slice bounds out of range")
                    /\ pc' = "panicked"
                    /\ connOpen' = (connOpen /\ ~deferred)
                    /\ UNCHANGED <<metrics, err>>
               ELSE /\ hist' = hist \o <<call>>
                               \o (IF res.err # ""
                                   THEN <<Ev("log", iter + 1, t2, TRUE, conn, <<>>, "collect_failed")>>
                                   ELSE <<>>)
                    /\ pc' = "send"
                    /\ metrics' = res.data
                    /\ err' = res.err
                    /\ UNCHANGED connOpen
    /\ UNCHANGED <<variant, key, cid, conn, response, tenantId, deferred>>

\* metrics, err := collectMetrics(...) ; if err != nil { log ; continue }
Collect ==
    /\ pc = "collect"
    /\ iter < MaxIter
    /\ \E r \in MetricsSource(variant) :
        LET res  == collectMetrics(variant, tenantId, cid, key, r, now)
            t2   == now + res.elapsed
            call == Ev("collectMetrics", iter + 1, now,
                       ~res.panic /\ res.err = "", conn, res.data, res.err)
            plog == IF res.proc.logged
                    THEN <<Ev("log", iter + 1, t2, TRUE, conn, <<>>, "process_list_failed")>>
                    ELSE <<>>
        IN  /\ iter' = iter + 1
            /\ now' = t2
            /\ processes' = r.scan
            /\ processList' = res.proc
            /\ IF res.panic
               THEN /\ hist' = hist \o <<call>> \o plog
                               \o PanicEvents(iter + 1, t2, "slice bounds out of range")
                    /\ pc' = "panicked"
                    /\ connOpen' = (connOpen /\ ~deferred)
                    /\ UNCHANGED <<metrics, err>>
               ELSE IF res.err # ""
               THEN /\ hist' = hist \o <<call>> \o plog
                               \o <<Ev("log", iter + 1, t2, TRUE, conn, <<>>, "collect_failed")>>
                    /\ pc' = "collect"
                    /\ metrics' = res.data
                    /\ err' = res.err
                    /\ UNCHANGED connOpen
               ELSE /\ hist' = hist \o <<call>> \o plog
                    /\ pc' = "send"
                    /\ metrics' = res.data
                    /\ err' = ""
                    /\ UNCHANGED connOpen
    /\ UNCHANGED <<variant, key, cid, conn, response, tenantId, deferred>>

\* Send that goes back to Dial when the write fails (a reconnect)
Send_Reconnect ==
    /\ pc = "send"
    /\ \E ok \in BOOLEAN :
        LET w == Ev("WriteMessage", iter, now, ok, conn, metrics, "")
        IN  IF ok
            THEN /\ hist' = hist \o <<w, Ev("log", iter, now, TRUE, conn, metrics, "send_done")>>
                 /\ pc' = "sleep"
                 /\ err' = ""
            ELSE /\ hist' = hist \o <<w, Ev("log", iter, now, TRUE, conn, <<>>, "send_error")>>
                 /\ pc' = "dial"
                 /\ err' = "write"
    /\ UNCHANGED <<variant, key, cid, conn, response, tenantId, deferred,
                   connOpen, metrics, now, iter, processes, processList>>

\* err = conn.WriteMessage(websocket.TextMessage, metrics)
\* part_000 does not log the send error.
Send ==
    /\ pc = "send"
    /\ \E ok \in BOOLEAN :
        LET w == Ev("WriteMessage", iter, now, ok, conn, metrics, "")
        IN  IF ok
            THEN /\ hist' = hist \o <<w, Ev("log", iter, now, TRUE, conn, metrics, "send_done")>>
                 /\ pc' = "sleep"
                 /\ err' = ""
            ELSE /\ hist' = hist \o <<w>>
                       \o (IF variant = "part_000" THEN <<>>
                           ELSE <<Ev("log", iter, now, TRUE, conn, <<>>, "send_error")>>)
                 /\ pc' = "collect"
                 /\ err' = "write"
    /\ UNCHANGED <<variant, key, cid, conn, response, tenantId, deferred,
                   connOpen, metrics, now, iter, processes, processList>>

\* time.Sleep(5 * time.Second)
Sleep ==
    /\ pc = "sleep"
    /\ now' = now + SleepInterval
    /\ hist' = Append(hist, Ev("Sleep", iter, now, TRUE, conn, <<>>, ""))
    /\ pc' = "collect"
    /\ UNCHANGED <<variant, key, cid, conn, response, err, tenantId, deferred,
                   connOpen, metrics, iter, processes, processList>>

Next ==
    \/ LoadEnv
    \/ Dial
    \/ ReadTenant
    \/ CheckDialErr
    \/ Collect
    \/ Send
    \/ Sleep

Spec == Init /\ [][Next]_vars

----------------------------------------------------------------------------
(* getCPUProcess on its own, against every scan of ProcScans *)

InitProc ==
    /\ variant = "part_000"
    /\ pc = "scan"
    /\ key = ""
    /\ cid = ""
    /\ conn = 0
    /\ response = NilResponse
    /\ err = ""
    /\ tenantId = ""
    /\ deferred = FALSE
    /\ connOpen = FALSE
    /\ metrics = <<>>
    /\ now = 0
    /\ iter = 0
    /\ hist = <<>>
    /\ processes \in ProcScans
    /\ processList = NoResult

CallGetCPUProcess ==
    /\ pc = "scan"
    /\ processList' = getCPUProcess(processes)
    /\ pc' = IF processList'.panic THEN "panicked" ELSE "scanned"
    /\ UNCHANGED <<variant, key, cid, conn, response, err, tenantId, deferred,
                   connOpen, metrics, now, iter, hist, processes>>

NextProc == CallGetCPUProcess

SpecProc == InitProc /\ [][NextProc]_vars

----------------------------------------------------------------------------
(* Properties *)

LoopPcs == {"collect", "send", "sleep"}
EndPcs == {"exited", "panicked"}

Field(p, name) == p[CHOOSE i \in DOMAIN p : p[i][1] = name][2]

TenantField == IF variant = "cmd_main" THEN "tenantId" ELSE "tid"

Between(i, e, j) == \E s \in Idx(e) : i < s /\ s < j

\* hist[j] is the collectMetrics call of the iteration after that of hist[i]
NextAttempt(i, j) ==
    /\ j \in Idx("collectMetrics")
    /\ i < j
    /\ hist[j].it = hist[i].it + 1

DialFailed == \E d \in Idx("Dial") : ~hist[d].ok

\* C1: when Dial fails (a network error with no response object included)
\* the process prints a failure message and main returns; it never enters
\* the loop: no sample is collected, no message is sent.
C1_HandshakeFailureExits ==
    DialFailed =>
        /\ pc # "panicked"
        /\ pc \notin LoopPcs
        /\ Idx("collectMetrics") = {}
        /\ Idx("WriteMessage") = {}
        /\ (pc = "exited" => \E p \in Idx("print") : \E d \in Idx("Dial") : d < p)

\* C2: with a Metrics Source that fails on every call, some delay (the
\* 5 s sleep, or at least the 1 s observation window, the smallest delay
\* the program knows) separates any two consecutive collectMetrics calls.
C2_OneAttemptPerInterval ==
    (\A i \in Idx("collectMetrics") : ~hist[i].ok) =>
        \A i \in Idx("collectMetrics") : \A j \in DOMAIN hist :
            NextAttempt(i, j) =>
                \/ Between(i, "Sleep", j)
                \/ hist[j].t - hist[i].t >= CpuWindow

\* C4: after WriteMessage returns an error the loop sleeps the fixed
\* interval before the next sampling attempt.
C4_SendFailureKeepsInterval ==
    \A i \in Idx("WriteMessage") : \A j \in DOMAIN hist :
        (~hist[i].ok /\ NextAttempt(i, j)) => Between(i, "Sleep", j)

\* C5: once Dial has returned a connection, every terminated state of
\* main has the connection closed.
C5_ChannelClosedOnEveryExit ==
    (pc \in EndPcs /\ conn # 0) => ~connOpen

\* C6: once in the loop (the deferred Close registered) the process stays
\* in the loop: it never terminates or faults.
C6_LoopNeverEnds ==
    deferred => pc \in LoopPcs

\* C7: in the tenant variants an absent X-TENANT-ID ends the process
\* before the loop, and every sample passed to WriteMessage carries a
\* non-empty tenant identifier equal to the one of the handshake response.
C7_TenantIdOnEverySample ==
    variant \in TenantVariants =>
        /\ (/\ pc \notin {"load_env", "dial", "read_tenant"}
            /\ ~response.nil
            /\ response.tenant = "")
              => (pc = "exited" /\ Idx("collectMetrics") = {} /\ ~deferred)
        /\ \A i \in Idx("WriteMessage") :
              /\ Field(hist[i].data, TenantField) # ""
              /\ Field(hist[i].data, TenantField) = response.tenant
              /\ ~response.nil

C7_Witness ==
    /\ variant \in TenantVariants
    /\ \E i \in Idx("WriteMessage") : hist[i].ok

\* C8: Dial is invoked at most once, the program never goes back from the
\* loop to connecting, and every send uses the connection of that Dial.
C8_SingleDial ==
    /\ NumDials <= 1
    /\ (deferred => pc \notin {"load_env", "dial", "read_tenant", "check_err"})
    /\ \A i \in Idx("WriteMessage") :
          /\ hist[i].conn # 0
          /\ \E d \in Idx("Dial") :
                d < i /\ hist[d].ok /\ hist[d].conn = hist[i].conn

C8_Witness ==
    \E i, j \in Idx("WriteMessage") : i < j /\ ~hist[i].ok

\* C9: every iteration in which collectMetrics or WriteMessage fails logs
\* a message before the next iteration starts, and every successful send
\* logs the transmitted payload.
C9_EveryFailureLogged ==
    \A i \in DOMAIN hist : \A j \in DOMAIN hist :
        NextAttempt(i, j) =>
            /\ (hist[i].ev = "collectMetrics" /\ hist[i].msg # "")
                  => \E l \in Idx("log") : i < l /\ l < j /\ hist[l].msg = "collect_failed"
            /\ (hist[i].ev = "WriteMessage" /\ ~hist[i].ok)
                  => \E l \in Idx("log") : i < l /\ l < j /\ hist[l].msg = "send_error"
            /\ (hist[i].ev = "WriteMessage" /\ hist[i].ok)
                  => \E l \in Idx("log") :
                        i < l /\ l < j /\ hist[l].msg = "send_done"
                        /\ hist[l].data = hist[i].data

\* C10: a message is written only in an iteration whose collectMetrics
\* call succeeded, it is the serialization of the sample of that same
\* iteration (never the empty slice returned with an error), and no
\* sample is passed to WriteMessage twice.
C10_SendsFreshSampleOnce ==
    /\ \A i \in Idx("WriteMessage") :
          /\ Len(hist[i].data) > 0
          /\ \E c \in Idx("collectMetrics") :
                /\ c < i
                /\ hist[c].ok
                /\ hist[c].it = hist[i].it
                /\ hist[c].data = hist[i].data
                /\ Field(hist[i].data, "timestamp") = <<"RFC3339", hist[c].t + CpuWindow>>
                /\ ~Between(c, "collectMetrics", i)
    /\ \A i, j \in Idx("WriteMessage") : i # j => hist[i].it # hist[j].it

C10_Witness ==
    /\ \E c \in Idx("collectMetrics") : ~hist[c].ok
    /\ \E i, j \in Idx("WriteMessage") : i < j /\ ~hist[i].ok /\ hist[j].ok

----------------------------------------------------------------------------
(* Properties of getCPUProcess, under SpecProc *)

Min(a, b) == IF a < b THEN a ELSE b

\* the processes of the scan whose CPU percent could be read
Readable(scan) ==
    IF scan.err THEN {}
    ELSE { [Pid |-> scan.procs[i].pid, Name |-> scan.procs[i].name,
            CPUPercent |-> Round2(scan.procs[i].cpu)] :
              i \in {k \in DOMAIN scan.procs : ~scan.procs[k].cpuErr} }

\* list is the first min(TopN, n) of the n entries of R in non-increasing
\* order of CPU percent
IsTop(list, R) ==
    /\ Len(list) = Min(TopN, Cardinality(R))
    /\ \A i \in DOMAIN list : list[i] \in R
    /\ \A i, j \in DOMAIN list : i < j =>
          /\ list[i].Pid # list[j].Pid
          /\ list[i].CPUPercent >= list[j].CPUPercent
    /\ \A q \in R : \A i \in DOMAIN list :
          q.CPUPercent > list[i].CPUPercent => \E k \in DOMAIN list : list[k] = q

\* C3: for every number n >= 0 of readable processes getCPUProcess returns
\* the first min(5, n) of them by non-increasing CPU percent, and does not
\* fault.
C3_TopFiveClamped ==
    pc \in {"scanned", "panicked"} =>
        /\ ~processList.panic
        /\ IsTop(processList.list, Readable(processes))

====
